---- MODULE Spec2Model ----
(***************************************************************************)
(* Verification model of the estonia_bike_route scripts.                   *)
(*                                                                         *)
(*   SpecMatrix  scripts/compute_distance_matrix.py: the chunked matrix    *)
(*               acquisition (plan the chunk size, one request per chunk   *)
(*               of sources, merge of the sub-matrices, save).             *)
(*   SpecTsp     the route scripts: label resolution, the request handed   *)
(*               to the tour-search engine, the decode walk, the outputs.  *)
(*                                                                         *)
(* The routing provider (openrouteservice) and the tour-search engine      *)
(* (OR-Tools) are external; they are modelled as nondeterministic          *)
(* environments that answer within their interface.                        *)
(***************************************************************************)
EXTENDS Integers, Sequences, FiniteSets, TLC

(***************************************************************************)
(* Bounds of the model                                                     *)
(***************************************************************************)
\* largest number of rows of the coordinates CSV explored exhaustively
MaxPoints == 10
\* largest route limit explored exhaustively (the script fixes it at MAX_ROUTES)
MaxLimit == 25

(***************************************************************************)
(* Program constants                                                       *)
(***************************************************************************)
\* the per-request route limit of the server, the literal of main()
MAX_ROUTES == 3500
\* the number of locations of the worked example in the module docstring
DocPoints == 81
\* HTTP status the script accepts
HTTP_OK == 200

\* seeds of the value families the modelled provider answers with
ProviderSeeds == {0, 1}
\* non-success statuses the modelled provider answers with
ErrorStatuses == {403, 500}

VARIABLES
  \* ---- compute_distance_matrix.py, main() ----
  mpc,          \* position in main(): "plan", "loop", "awaiting", "done", "aborted"
  N,            \* len(coords)
  max_routes,   \* the route limit chunk_size is derived from
  chunk_size,
  dist_matrix,  \* [0..N-1 -> [0..N-1 -> Int]] once allocated, <<>> before
  dur_matrix,
  dist_writes,  \* how often the merge has assigned each cell of dist_matrix
  dur_writes,   \* how often the merge has assigned each cell of dur_matrix
  start_idx,
  end_idx,
  requests,     \* payloads posted so far, in order
  responses,    \* responses received so far, in order (responses[k] answers requests[k])
  raised,       \* the exception that ended main(), or NoException
  printed,      \* the "Requesting matrix for sources=a..b" lines printed so far
  files,        \* CSV files written: file name -> matrix
  \* ---- the route scripts ----
  script,          \* the script that runs
  city_names,      \* labels of the distance matrix CSV, in index order
  distance_matrix, \* [0..n-1 -> [0..n-1 -> cost]], costs in 1/Scale units
  tpc,             \* position: "idle", "resolve", "solve", "walk", "returned", "done", "aborted"
  stage,           \* which of the script's routes is being solved (1-based)
  tartu_index,     \* resolved start index
  tallinn_index,   \* resolved end index
  engine_calls,    \* the requests handed to the tour-search engine so far
  manager,         \* RoutingIndexManager of the solve in progress
  solution,        \* what SolveWithParameters returned for the solve in progress
  index,           \* cursor of the decode walk
  route_indices,   \* the route being rebuilt by the decode walk
  result,          \* what the last solve returned to its caller
  tprinted,        \* lines printed by the script
  tfiles,          \* track files written: file name -> city names of the route
  traised,         \* the exception that ended the script, or NoException
  \* ---- geocode_hesburger.py, main() ----
  gpc,             \* position in main(): "idle", "rows", "done"
  df,              \* the rows read from the input CSV, in order
  row,             \* how many rows the loop has geocoded
  latitudes,       \* the list the loop appends lat to
  longitudes,      \* the list the loop appends lon to
  gprinted,        \* lines printed by the script
  gfiles           \* CSV files written: file name -> rows

mvars == <<mpc, N, max_routes, chunk_size, dist_matrix, dur_matrix,
           dist_writes, dur_writes, start_idx, end_idx, requests, responses, raised, printed, files>>

tvars == <<script, city_names, distance_matrix, tpc, stage, tartu_index, tallinn_index,
           engine_calls, manager, solution, index, route_indices, result,
           tprinted, tfiles, traised>>

gvars == <<gpc, df, row, latitudes, longitudes, gprinted, gfiles>>

vars == <<mvars, tvars, gvars>>

\* an exception is its class and what it was constructed from
NoException == [type |-> "none", args |-> <<>>]

\* the end of a chunk taken without clamping it to the number of points
MinLeft(a, b) == a

\* line 64: min(start_idx + chunk_size, N)
Min(a, b) == IF a < b THEN a ELSE b

\* list(range(a, b)) as a sequence
Range(a, b) == [k \in 1..(IF b > a THEN b - a ELSE 0) |-> a + k - 1]

\* [[0.0]*n for _ in range(n)]
ZeroMatrix(n) == [r \in 0..(n - 1) |-> [c \in 0..(n - 1) |-> 0]]

\* a chunk size rounded up instead of down
ChunkSizeCeil(limit, n) == (limit + n - 1) \div n

\* math.floor(limit / n), n > 0
ChunkSize(limit, n) == limit \div n

NoManager == [index_to_node |-> <<>>, start |-> 0, end |-> 0]
NoSolution == [found |-> FALSE, next |-> <<>>, objective |-> 0]
\* the (None, None) a solve returns when the engine finds nothing
NoRoute == [found |-> FALSE, route |-> <<>>, total |-> 0]

\* geocode_hesburger.py is not running
GeoIdle ==
  /\ gpc = "idle"
  /\ df = <<>>
  /\ row = 0
  /\ latitudes = <<>>
  /\ longitudes = <<>>
  /\ gprinted = <<>>
  /\ gfiles = <<>>

\* the route scripts are not running, the script called name is
RouteScriptsIdle(name) ==
  /\ script = name
  /\ city_names = <<>>
  /\ distance_matrix = <<>>
  /\ tpc = "idle"
  /\ stage = 0
  /\ tartu_index = 0
  /\ tallinn_index = 0
  /\ engine_calls = <<>>
  /\ manager = NoManager
  /\ solution = NoSolution
  /\ index = 0
  /\ route_indices = <<>>
  /\ result = NoRoute
  /\ tprinted = <<>>
  /\ tfiles = <<>>
  /\ traised = NoException

TspIdle == RouteScriptsIdle("compute_distance_matrix")

\* compute_distance_matrix.py is not running
MatrixIdle ==
  /\ mpc = "idle"
  /\ N = 0
  /\ max_routes = MAX_ROUTES
  /\ chunk_size = 0
  /\ dist_matrix = <<>>
  /\ dur_matrix = <<>>
  /\ dist_writes = <<>>
  /\ dur_writes = <<>>
  /\ start_idx = 0
  /\ end_idx = 0
  /\ requests = <<>>
  /\ responses = <<>>
  /\ raised = NoException
  /\ printed = <<>>
  /\ files = <<>>

(***************************************************************************)
(* The provider: for a payload it answers one value per (source,           *)
(* destination) pair.  Its values are drawn from a family indexed by a     *)
(* seed; seed 0 has a zero diagonal as a routing service has, the others   *)
(* do not.  Rows and columns of the answer are 1-based sequences.          *)
(***************************************************************************)
ProviderDistance(seed, s, d) ==
  IF s = d THEN 7 * seed ELSE 100 * s + d + 1 + seed

ProviderDuration(seed, s, d) ==
  IF s = d THEN 3 * seed ELSE 100 * d + s + 2 + seed

ProviderAnswer(seed, payload) ==
  [status_code |-> HTTP_OK,
   text        |-> "ok",
   distances   |-> [i \in 1..Len(payload.sources) |->
                     [j \in 1..Len(payload.destinations) |->
                       ProviderDistance(seed, payload.sources[i], payload.destinations[j])]],
   durations   |-> [i \in 1..Len(payload.sources) |->
                     [j \in 1..Len(payload.destinations) |->
                       ProviderDuration(seed, payload.sources[i], payload.destinations[j])]]]

ProviderFailure(status) ==
  [status_code |-> status, text |-> "error", distances |-> <<>>, durations |-> <<>>]

(***************************************************************************)
(* compute_distance_matrix.py                                              *)
(***************************************************************************)
\* the configurations explored: every small (N, limit) pair, and the
\* docstring's example under the script's own limit
MatrixInputs ==
  ((0..MaxPoints) \X (1..MaxLimit))
    \cup ((0..MaxPoints) \X {MAX_ROUTES})
    \cup {<<DocPoints, MAX_ROUTES>>}

InitMatrix ==
  /\ \E in \in MatrixInputs : N = in[1] /\ max_routes = in[2]
  /\ mpc = "plan"
  /\ chunk_size = 0
  /\ dist_matrix = <<>>
  /\ dur_matrix = <<>>
  /\ dist_writes = <<>>
  /\ dur_writes = <<>>
  /\ start_idx = 0
  /\ end_idx = 0
  /\ requests = <<>>
  /\ responses = <<>>
  /\ raised = NoException
  /\ printed = <<>>
  /\ files = <<>>
  /\ TspIdle
  /\ GeoIdle

\* a guard that lets a chunk size of 0 through
TooManyPointsBelowZero(size) == size < 0

\* line 48: the planning guard
TooManyPoints(size) == size < 1

\* lines 47-63: chunk size, the guard, the allocation of the two matrices
PlanDivisionByZero ==
  /\ UNCHANGED <<tvars, gvars>>
  /\ mpc = "plan"
  /\ N = 0
  /\ mpc' = "aborted"
  /\ raised' = [type |-> "ZeroDivisionError", args |-> <<>>]
  /\ UNCHANGED <<N, max_routes, chunk_size, dist_matrix, dur_matrix,
                 dist_writes, dur_writes, start_idx, end_idx, requests, responses, printed, files>>

PlanInfeasible ==
  /\ UNCHANGED <<tvars, gvars>>
  /\ mpc = "plan"
  /\ N > 0
  /\ TooManyPoints(ChunkSize(max_routes, N))
  /\ chunk_size' = ChunkSize(max_routes, N)
  /\ mpc' = "aborted"
  /\ raised' = [type |-> "ValueError", args |-> [points |-> N]]
  /\ UNCHANGED <<N, max_routes, dist_matrix, dur_matrix,
                 dist_writes, dur_writes, start_idx, end_idx, requests, responses, printed, files>>

PlanChunks ==
  /\ UNCHANGED <<tvars, gvars>>
  /\ mpc = "plan"
  /\ N > 0
  /\ ~TooManyPoints(ChunkSize(max_routes, N))
  /\ chunk_size' = ChunkSize(max_routes, N)
  /\ dist_matrix' = ZeroMatrix(N)
  /\ dur_matrix' = ZeroMatrix(N)
  /\ dist_writes' = ZeroMatrix(N)
  /\ dur_writes' = ZeroMatrix(N)
  /\ start_idx' = 0
  /\ mpc' = "loop"
  /\ UNCHANGED <<N, max_routes, end_idx, requests, responses, raised, printed, files>>

\* a payload whose source range includes end_idx
PayloadInclusive(s, e, n) == [sources |-> Range(s, e + 1), destinations |-> Range(0, n)]

\* lines 64-84: one iteration up to the POST
Payload(s, e, n) == [sources |-> Range(s, e), destinations |-> Range(0, n)]

\* line 83: the progress line printed before the POST
RequestLine(s, e, n) == [first |-> s, last |-> e - 1, of |-> n, size |-> e - s]

PostRequest ==
  /\ UNCHANGED <<tvars, gvars>>
  /\ mpc = "loop"
  /\ start_idx < N
  /\ end_idx' = Min(start_idx + chunk_size, N)
  /\ requests' = Append(requests, Payload(start_idx, end_idx', N))
  /\ printed' = Append(printed, RequestLine(start_idx, end_idx', N))
  /\ mpc' = "awaiting"
  /\ UNCHANGED <<N, max_routes, chunk_size, dist_matrix, dur_matrix,
                 dist_writes, dur_writes, start_idx, responses, raised, files>>

\* an exception built from the response text alone
ProviderErrorArgsTextOnly(r) == [text |-> r.text]

\* lines 85-88: a non-200 status raises
ProviderErrorArgs(r) == [status_code |-> r.status_code, text |-> r.text]

\* a handler that goes back to the loop to send the failed chunk again
ReceiveErrorRetry ==
  /\ UNCHANGED <<tvars, gvars>>
  /\ mpc = "awaiting"
  /\ \E status \in ErrorStatuses :
       responses' = Append(responses, ProviderFailure(status))
  /\ mpc' = "loop"
  /\ UNCHANGED <<N, max_routes, chunk_size, dist_matrix, dur_matrix,
                 dist_writes, dur_writes, start_idx, end_idx, requests, raised, printed, files>>

\* a handler that logs the failed chunk and goes on with the next one
ReceiveErrorSkipChunk ==
  /\ UNCHANGED <<tvars, gvars>>
  /\ mpc = "awaiting"
  /\ \E status \in ErrorStatuses :
       responses' = Append(responses, ProviderFailure(status))
  /\ start_idx' = end_idx
  /\ mpc' = "loop"
  /\ UNCHANGED <<N, max_routes, chunk_size, dist_matrix, dur_matrix,
                 dist_writes, dur_writes, end_idx, requests, raised, printed, files>>

ReceiveError ==
  /\ UNCHANGED <<tvars, gvars>>
  /\ mpc = "awaiting"
  /\ \E status \in ErrorStatuses :
       LET r == ProviderFailure(status) IN
         /\ responses' = Append(responses, r)
         /\ raised' = [type |-> "Exception", args |-> ProviderErrorArgs(r)]
  /\ mpc' = "aborted"
  /\ UNCHANGED <<N, max_routes, chunk_size, dist_matrix, dur_matrix,
                 dist_writes, dur_writes, start_idx, end_idx, requests, printed, files>>

\* a merge that writes sub-matrix row i to full row i, without the chunk offset
MergeRowsNoOffset(full, sub, start, chunk_length, n) ==
  [r \in 0..(n - 1) |->
    IF r < chunk_length
      THEN [j \in 0..(n - 1) |-> sub[r + 1][j + 1]]
      ELSE full[r]]

\* a merge that leaves the diagonal cells at their initial zero
MergeRowsSkipDiagonal(full, sub, start, chunk_length, n) ==
  [r \in 0..(n - 1) |->
    IF r >= start /\ r < start + chunk_length
      THEN [j \in 0..(n - 1) |-> IF j = r THEN full[r][j] ELSE sub[r - start + 1][j + 1]]
      ELSE full[r]]

\* lines 96-100: the merge of one sub-matrix into the full matrix
MergeRows(full, sub, start, chunk_length, n) ==
  [r \in 0..(n - 1) |->
    IF r >= start /\ r < start + chunk_length
      THEN [j \in 0..(n - 1) |-> sub[r - start + 1][j + 1]]
      ELSE full[r]]

\* lines 96-100: the cells the two loops assign, counted: one assignment of
\* cell [start + i][j] for every i in range(chunk_length) and j in range(n)
MergeCounts(counts, start, chunk_length, n) ==
  [r \in 0..(n - 1) |-> [j \in 0..(n - 1) |->
    counts[r][j] + Cardinality({i \in 0..(chunk_length - 1) : start + i = r})]]

\* a handler that advances the cursor to the last row of the chunk it merged
ReceiveOKStepBack ==
  /\ UNCHANGED <<tvars, gvars>>
  /\ mpc = "awaiting"
  /\ \E seed \in ProviderSeeds :
       LET r == ProviderAnswer(seed, requests[Len(requests)])
           chunk_length == end_idx - start_idx
       IN
         /\ responses' = Append(responses, r)
         /\ dist_matrix' = MergeRows(dist_matrix, r.distances, start_idx, chunk_length, N)
         /\ dur_matrix' = MergeRows(dur_matrix, r.durations, start_idx, chunk_length, N)
         /\ dist_writes' = MergeCounts(dist_writes, start_idx, chunk_length, N)
         /\ dur_writes' = MergeCounts(dur_writes, start_idx, chunk_length, N)
  /\ start_idx' = end_idx - 1
  /\ mpc' = "loop"
  /\ UNCHANGED <<N, max_routes, chunk_size, end_idx, requests, raised, printed, files>>

\* lines 85-103: a 200 answer is merged and the cursor advances
ReceiveOK ==
  /\ UNCHANGED <<tvars, gvars>>
  /\ mpc = "awaiting"
  /\ \E seed \in ProviderSeeds :
       LET r == ProviderAnswer(seed, requests[Len(requests)])
           chunk_length == end_idx - start_idx
       IN
         /\ responses' = Append(responses, r)
         /\ dist_matrix' = MergeRows(dist_matrix, r.distances, start_idx, chunk_length, N)
         /\ dur_matrix' = MergeRows(dur_matrix, r.durations, start_idx, chunk_length, N)
         /\ dist_writes' = MergeCounts(dist_writes, start_idx, chunk_length, N)
         /\ dur_writes' = MergeCounts(dur_writes, start_idx, chunk_length, N)
  /\ start_idx' = end_idx
  /\ mpc' = "loop"
  /\ UNCHANGED <<N, max_routes, chunk_size, end_idx, requests, raised, printed, files>>

\* lines 105-114: the loop is over, both matrices are written
SaveResults ==
  /\ UNCHANGED <<tvars, gvars>>
  /\ mpc = "loop"
  /\ ~(start_idx < N)
  /\ files' = [f \in {"hesburger_distance_matrix.csv", "hesburger_duration_matrix.csv"} |->
                IF f = "hesburger_distance_matrix.csv" THEN dist_matrix ELSE dur_matrix]
  /\ mpc' = "done"
  /\ UNCHANGED <<N, max_routes, chunk_size, dist_matrix, dur_matrix,
                 dist_writes, dur_writes, start_idx, end_idx, requests, responses, raised, printed>>

NextMatrix ==
  \/ PlanDivisionByZero
  \/ PlanInfeasible
  \/ PlanChunks
  \/ PostRequest
  \/ ReceiveError
  \/ ReceiveOK
  \/ SaveResults

SpecMatrix == InitMatrix /\ [][NextMatrix]_vars

(***************************************************************************)
(* Properties of the chunked matrix acquisition                            *)
(***************************************************************************)
\* the source indices of the k-th request, as a set
SourceSet(k) == {requests[k].sources[i] : i \in 1..Len(requests[k].sources)}

\* the loop has run to its end: every chunk was requested and merged
AssemblyComplete == mpc = "done" \/ (mpc = "loop" /\ ~(start_idx < N))

\* C1: whenever planning succeeds (N >= 1, limit >= N) the source ranges of
\* the requests issued so far are non-empty ascending runs of consecutive
\* indices, the first starting at 0 and each next one starting right after
\* the previous one's last index; once the loop is over the last one ends
\* at N - 1 and every index of [0, N) is a source of exactly one request.
C1_ChunksPartitionSources ==
  (N >= 1 /\ max_routes >= N) =>
    /\ \A k \in 1..Len(requests) :
         LET src == requests[k].sources IN
           /\ Len(src) >= 1
           /\ \A i \in 1..(Len(src) - 1) : src[i + 1] = src[i] + 1
           /\ k = 1 => src[1] = 0
           /\ k > 1 => src[1] = requests[k - 1].sources[Len(requests[k - 1].sources)] + 1
           /\ src[Len(src)] <= N - 1
    /\ AssemblyComplete =>
         /\ Len(requests) >= 1
         /\ requests[Len(requests)].sources[Len(requests[Len(requests)].sources)] = N - 1
         /\ \A idx \in 0..(N - 1) :
              Cardinality({k \in 1..Len(requests) : idx \in SourceSet(k)}) = 1

\* a completed run of at least three chunks whose last chunk is shorter
C1_Witness ==
  /\ mpc = "done"
  /\ Len(requests) >= 3
  /\ Len(requests[Len(requests)].sources) < Len(requests[1].sources)

\* C2: every request issued asks for at most the limit number of routes:
\* (number of sources) x (number of destinations) <= limit, and the
\* destinations are all N points.
C2_RequestWithinLimit ==
  \A k \in 1..Len(requests) :
    /\ Len(requests[k].destinations) = N
    /\ Len(requests[k].sources) * Len(requests[k].destinations) <= max_routes

\* a run of several requests whose first one has several sources and uses
\* the limit up exactly
C2_Witness ==
  /\ Len(requests) >= 2
  /\ Len(requests[1].sources) >= 2
  /\ Len(requests[1].sources) * N = max_routes

\* C3: when the limit is smaller than the number of points, planning ends
\* the run with the "too many points" ValueError, and no request is posted,
\* no matrix allocated and no file written, at any point of the run.
C3_InfeasiblePlanFails ==
  (N >= 1 /\ max_routes < N) =>
    /\ requests = <<>>
    /\ dist_matrix = <<>> /\ dur_matrix = <<>>
    /\ files = <<>>
    /\ mpc \in {"plan", "aborted"}
    /\ mpc = "aborted" => (raised.type = "ValueError" /\ chunk_size = 0)

\* a run with more points than the limit allows for a single source row:
\* planning has failed
C3_Witness ==
  /\ N >= 2 /\ max_routes >= 1 /\ max_routes < N
  /\ mpc = "aborted"
  /\ raised.type = "ValueError"

\* C4: once the loop is over, every cell [r][j] of the distance matrix is the
\* value the provider returned for source r and destination j, which is row
\* (position of r in the request's sources), column j of the answer to the
\* request r was a source of; likewise the duration matrix; the files
\* written hold these matrices.
C4_CellsAreProviderValues ==
  AssemblyComplete =>
    /\ \A r \in 0..(N - 1) : \A j \in 0..(N - 1) :
         \E k \in 1..Len(requests) : \E i \in 1..Len(requests[k].sources) :
           /\ requests[k].sources[i] = r
           /\ dist_matrix[r][j] = responses[k].distances[i][j + 1]
           /\ dur_matrix[r][j] = responses[k].durations[i][j + 1]
    /\ mpc = "done" =>
         /\ files["hesburger_distance_matrix.csv"] = dist_matrix
         /\ files["hesburger_duration_matrix.csv"] = dur_matrix

\* a completed run of several chunks answered from different value families
C4_Witness ==
  /\ mpc = "done"
  /\ Len(requests) >= 2
  /\ responses[1].distances[1][2] # responses[2].distances[1][2] - 100 * requests[2].sources[1]
  /\ dist_matrix[N - 1][0] # 0

\* C5: once a response with a non-success status has been received the run
\* is aborted: that response answers the last request ever posted, and no
\* file has been written, whatever rows were merged before.
C5_AllOrNothing ==
  (\E k \in 1..Len(responses) : responses[k].status_code # HTTP_OK) =>
    /\ mpc = "aborted"
    /\ raised.type = "Exception"
    /\ responses[Len(responses)].status_code # HTTP_OK
    /\ \A k \in 1..(Len(responses) - 1) : responses[k].status_code = HTTP_OK
    /\ Len(requests) = Len(responses)
    /\ files = <<>>

\* a failure on a middle chunk, after rows of an earlier chunk were merged
C5_Witness ==
  /\ mpc = "aborted"
  /\ Len(responses) >= 2
  /\ responses[Len(responses)].status_code # HTTP_OK
  /\ end_idx < N
  /\ dist_matrix[0][1] # 0

\* C6 as stated: the error raised for a non-success response carries the
\* failing chunk's source index range and the provider's status.
C6_ErrorCarriesRangeAndStatus ==
  raised.type = "Exception" =>
    /\ "status_code" \in DOMAIN raised.args
    /\ raised.args.status_code = responses[Len(responses)].status_code
    /\ "sources" \in DOMAIN raised.args
    /\ raised.args.sources = <<start_idx, end_idx - 1>>

\* C6 amended: the error raised for a non-success response is built from the
\* provider's status and response text and nothing else; the failing chunk's
\* source range is in the line printed last, before the request was posted.
C6_ErrorCarriesStatus ==
  raised.type = "Exception" =>
    /\ DOMAIN raised.args = {"status_code", "text"}
    /\ raised.args.status_code = responses[Len(responses)].status_code
    /\ raised.args.status_code # HTTP_OK
    /\ raised.args.text = responses[Len(responses)].text
    /\ printed[Len(printed)].first = requests[Len(requests)].sources[1]
    /\ printed[Len(printed)].last =
         requests[Len(requests)].sources[Len(requests[Len(requests)].sources)]

\* a provider failure on a chunk that is not the first
C6_Witness ==
  /\ raised.type = "Exception"
  /\ raised.args.status_code = 500
  /\ start_idx > 0

(***************************************************************************)
(* The route scripts: multi_tsp_solutions.py, multi_tsp_with_kml_hesburger *)
(* .py, multi_tsp_with_gpx.py and tsp-or-tools.py                          *)
(***************************************************************************)
\* largest number of cities of the distance matrix CSV
MaxCities == 4
\* costs are fixed-point numbers: a cost c stands for the float c / Scale
Scale == 10
\* end_index=None
NoEnd == -1
\* list.index() found nothing (it raises ValueError)
NotFound == -1

\* seeds of the cost matrices: 0 whole costs, 1 costs ending in (Scale-1)/Scale,
\* 2 costs with mixed fractional parts
CostSeeds == {0, 1, 2}

Scripts == {"multi_tsp_solutions", "multi_tsp_with_kml_hesburger",
            "multi_tsp_with_gpx", "tsp-or-tools"}

\* the labels each script looks up
StartLabel(sc) ==
  IF sc = "multi_tsp_with_kml_hesburger" THEN "Hesburger Tartu Vabaduse" ELSE "Tartu"

EndLabel(sc) ==
  IF sc = "multi_tsp_with_kml_hesburger" THEN "Hesburger Tallinn Solaris Keskus" ELSE "Tallinn"

\* other labels of the CSV, by row
OtherLabels == <<"Narva", "Parnu", "Viljandi", "Rakvere", "Valga", "Voru", "Kuressaare", "Haapsalu">>

\* a label list of n rows with the start label in row ps and the end label
\* in row pe (0: the label is not in the list)
CityNames(sc, n, ps, pe) ==
  [i \in 1..n |-> IF i = ps THEN StartLabel(sc)
                  ELSE IF i = pe THEN EndLabel(sc)
                  ELSE OtherLabels[i]]

\* an n x n matrix of non-negative costs with a zero diagonal, not symmetric
CostMatrix(seed, n) ==
  [i \in 0..(n - 1) |-> [j \in 0..(n - 1) |->
    IF i = j THEN 0
    ELSE Scale * (1 + ((i + 2 * j) % 3))
           + (CASE seed = 0 -> 0
                [] seed = 1 -> Scale - 1
                [] OTHER    -> (3 * i + 7 * j) % Scale)]]

RECURSIVE SumSeq(_)
SumSeq(q) == IF q = <<>> THEN 0 ELSE q[1] + SumSeq(Tail(q))

\* the members of a sequence
Members(q) == {q[i] : i \in 1..Len(q)}

\* all orders of the members of a finite set
Perms(S) ==
  {f \in [1..Cardinality(S) -> S] : \A a, b \in 1..Cardinality(S) : a # b => f[a] # f[b]}

\* a lookup that answers row 0 for a label it does not find
IndexOrZero(names, label) ==
  IF \E i \in 1..Len(names) : names[i] = label
    THEN (CHOOSE i \in 1..Len(names) :
            names[i] = label /\ \A k \in 1..(i - 1) : names[k] # label) - 1
    ELSE 0

\* city_names.index(label): the 0-based row of the first match
Index(names, label) ==
  IF \E i \in 1..Len(names) : names[i] = label
    THEN (CHOOSE i \in 1..Len(names) :
            names[i] = label /\ \A k \in 1..(i - 1) : names[k] # label) - 1
    ELSE NotFound

\* [city_names[i] for i in route]
RouteCities(names, route) == [k \in 1..Len(route) |-> names[route[k] + 1]]

InitTsp ==
  /\ MatrixIdle
  /\ GeoIdle
  /\ \E sc \in Scripts, n \in 0..MaxCities, seed \in CostSeeds :
       \E ps \in 0..n, pe \in 0..n :
         /\ (ps = 0 \/ ps # pe)
         /\ script = sc
         /\ city_names = CityNames(sc, n, ps, pe)
         /\ distance_matrix = CostMatrix(seed, n)
  /\ tpc = "resolve"
  /\ stage = 0
  /\ tartu_index = 0
  /\ tallinn_index = 0
  /\ engine_calls = <<>>
  /\ manager = NoManager
  /\ solution = NoSolution
  /\ index = 0
  /\ route_indices = <<>>
  /\ result = NoRoute
  /\ tprinted = <<>>
  /\ tfiles = <<>>
  /\ traised = NoException

\* a printed line
Line(kind, label, route, cost) == [kind |-> kind, label |-> label, route |-> route, cost |-> cost]

\* main() of the three scripts that call solve_tsp: each lookup is guarded by
\* try/except ValueError, which prints an error naming start_named or
\* end_named and returns
ResolveLabels(start_label, end_label, start_named, end_named) ==
  /\ tpc = "resolve"
  /\ LET si == Index(city_names, start_label)
         ei == Index(city_names, end_label)
     IN
       IF si = NotFound
         THEN /\ tprinted' = Append(tprinted, Line("error", start_named, <<>>, 0))
              /\ tpc' = "done"
              /\ UNCHANGED <<tartu_index, tallinn_index, stage>>
       ELSE IF ei = NotFound
         THEN /\ tprinted' = Append(tprinted, Line("error", end_named, <<>>, 0))
              /\ tartu_index' = si
              /\ tpc' = "done"
              /\ UNCHANGED <<tallinn_index, stage>>
       ELSE /\ tartu_index' = si
            /\ tallinn_index' = ei
            /\ stage' = 1
            /\ tpc' = "solve"
            /\ UNCHANGED tprinted
  /\ UNCHANGED <<script, city_names, distance_matrix, engine_calls, manager, solution,
                 index, route_indices, result, tfiles, traised>>
  /\ UNCHANGED <<mvars, gvars>>

SolutionsResolve ==
  /\ script = "multi_tsp_solutions"
  /\ ResolveLabels("Tartu", "Tallinn", "Tartu", "Tallinn")

KmlResolve ==
  /\ script = "multi_tsp_with_kml_hesburger"
  /\ ResolveLabels("Hesburger Tartu Vabaduse", "Hesburger Tallinn Solaris Keskus",
                   "Hesburger Tartu Vabaduse", "Hesburger Tallinn Solaris Keskus")

GpxResolve ==
  /\ script = "multi_tsp_with_gpx"
  /\ ResolveLabels("Tartu", "Tallinn",
                   "Hesburger Tartu Vabaduse", "Hesburger Tallinn Solaris Keskus")

\* tsp-or-tools.py, create_data_model(): the lookups are not guarded, a
\* missing label raises ValueError out of main()
CreateDataModel ==
  /\ script = "tsp-or-tools"
  /\ tpc = "resolve"
  /\ LET si == Index(city_names, "Tartu")
         ei == Index(city_names, "Tallinn")
     IN
       IF si = NotFound \/ ei = NotFound
         THEN /\ traised' = [type |-> "ValueError",
                             args |-> [label |-> IF si = NotFound THEN "Tartu" ELSE "Tallinn"]]
              /\ tpc' = "aborted"
              /\ UNCHANGED <<tartu_index, tallinn_index, stage>>
         ELSE /\ tartu_index' = si
              /\ tallinn_index' = ei
              /\ stage' = 1
              /\ tpc' = "solve"
              /\ UNCHANGED traised
  /\ UNCHANGED <<script, city_names, distance_matrix, engine_calls, manager, solution,
                 index, route_indices, result, tprinted, tfiles>>
  /\ UNCHANGED <<mvars, gvars>>

(***************************************************************************)
(* The tour-search engine as the scripts use it.  RoutingIndexManager maps *)
(* solver indices to nodes: with a single depot the indices 0..n-1 are the *)
(* nodes and index n is the route's end, which maps back to the depot;     *)
(* with separate start and end the nodes other than the end take the       *)
(* indices 0.. in node order and the last index is the route's end.        *)
(***************************************************************************)
\* pywrapcp.RoutingIndexManager(num_cities, 1, depot)
SingleDepotManager(num_cities, depot) ==
  [constructor   |-> "single_depot",
   index_to_node |-> [i \in 0..num_cities |-> IF i = num_cities THEN depot ELSE i],
   start         |-> depot,
   end           |-> num_cities]

\* pywrapcp.RoutingIndexManager(num_cities, 1, [start], [end])
StartsEndsManager(num_cities, s, e) ==
  LET kept == {i \in 0..(num_cities - 1) : i = s \/ i # e}
      size == Cardinality(kept)
      nodeAt(k) == CHOOSE i \in kept : Cardinality({j \in kept : j < i}) = k
  IN [constructor   |-> "starts_ends",
      index_to_node |-> [i \in 0..size |-> IF i = size THEN e ELSE nodeAt(i)],
      start         |-> Cardinality({j \in kept : j < s}),
      end           |-> size]

\* manager.NodeToIndex(node)
NodeToIndex(m, node) == CHOOSE i \in 0..(m.end - 1) : m.index_to_node[i] = node

\* a solve that builds the single-depot manager whatever end_index is
BuildManagerIgnoringEnd(num_cities, start_index, end_index) ==
  SingleDepotManager(num_cities, start_index)

\* multi_tsp_solutions.py, solve_tsp: the manager for the two topologies
BuildManager(num_cities, start_index, end_index) ==
  IF end_index = NoEnd
    THEN SingleDepotManager(num_cities, start_index)
    ELSE StartsEndsManager(num_cities, start_index, end_index)

\* multi_tsp_with_kml_hesburger.py, solve_tsp
BuildManagerKml(num_cities, start_index, end_index) ==
  IF end_index = NoEnd
    THEN SingleDepotManager(num_cities, start_index)
    ELSE StartsEndsManager(num_cities, start_index, end_index)

\* multi_tsp_with_gpx.py, solve_tsp
BuildManagerGpx(num_cities, start_index, end_index) ==
  IF end_index = NoEnd
    THEN SingleDepotManager(num_cities, start_index)
    ELSE StartsEndsManager(num_cities, start_index, end_index)

\* int(x) of a non-negative float, in whole units
IntOf(x) == x \div Scale

\* a callback that rounds to the nearest whole unit instead of truncating
DistanceCallbackRounding(m, dm, from_idx, to_idx) ==
  (dm[m.index_to_node[from_idx]][m.index_to_node[to_idx]] + (Scale \div 2)) \div Scale

\* solve_tsp.distance_callback: the arc cost the engine is given
DistanceCallback(m, dm, from_idx, to_idx) ==
  IntOf(dm[m.index_to_node[from_idx]][m.index_to_node[to_idx]])

\* the index sequences the engine may return for a routing model: from the
\* start index to the end index through every other index exactly once,
\* except that any of the optional indices (those under a disjunction) may
\* be left out
EnginePaths(m, optional) ==
  LET inner == (0..(m.end - 1)) \ {m.start}
  IN UNION {
       {<<m.start>> \o p \o <<m.end>> : p \in Perms(inner \ dropped)}
         : dropped \in SUBSET (optional \cap inner)}

\* the assignment of the NextVars for a path; an index left out is its own successor
NextVars(m, path) ==
  [i \in 0..(m.end - 1) |->
    IF \E k \in 1..(Len(path) - 1) : path[k] = i
      THEN path[(CHOOSE k \in 1..(Len(path) - 1) : path[k] = i) + 1]
      ELSE i]

\* the arc costs the engine evaluates, by (from index, to index)
ArcCosts(m, dm) ==
  [a \in (0..m.end) \X (0..m.end) |-> DistanceCallback(m, dm, a[1], a[2])]

\* what SolveWithParameters may answer: nothing, or any feasible assignment
\* with its objective, the sum of the arc costs along the route
EngineAnswers(m, arc_cost, optional) ==
  {NoSolution} \cup
  {[found     |-> TRUE,
    next      |-> NextVars(m, path),
    objective |-> SumSeq([k \in 1..(Len(path) - 1) |-> arc_cost[<<path[k], path[k + 1]>>]])]
     : path \in EnginePaths(m, optional)}

\* the routes each script solves, in order (main() of each script)
Routes ==
  CASE script = "multi_tsp_solutions" ->
         << [start |-> tartu_index, end |-> NoEnd, label |-> "Tartu -> Tartu", file |-> ""],
            [start |-> tartu_index, end |-> tallinn_index, label |-> "Tartu -> Tallinn", file |-> ""],
            [start |-> 0, end |-> NoEnd, label |-> "city[0] -> city[0]", file |-> ""] >>
    [] script = "multi_tsp_with_kml_hesburger" ->
         << [start |-> tartu_index, end |-> NoEnd, label |-> "Vabaduse -> Vabaduse",
             file |-> "Vabaduse_Vabaduse.kml"],
            [start |-> tartu_index, end |-> tallinn_index, label |-> "Vabaduse -> Solaris",
             file |-> "Vabaduse_Solaris.kml"] >>
    [] script = "multi_tsp_with_gpx" ->
         << [start |-> tartu_index, end |-> tallinn_index, label |-> "Tartu -> Tallinn",
             file |-> "Tartu_Tallinn.gpx"] >>
    [] OTHER -> <<>>

SolveTspScripts == {"multi_tsp_solutions", "multi_tsp_with_kml_hesburger", "multi_tsp_with_gpx"}

ManagerOf(sc, num_cities, start_index, end_index) ==
  CASE sc = "multi_tsp_with_kml_hesburger" -> BuildManagerKml(num_cities, start_index, end_index)
    [] sc = "multi_tsp_with_gpx" -> BuildManagerGpx(num_cities, start_index, end_index)
    [] OTHER -> BuildManager(num_cities, start_index, end_index)

\* the request as the engine sees it
EngineCall(m, num_cities, optional) ==
  [constructor |-> m.constructor, num_cities |-> num_cities,
   start |-> m.index_to_node[m.start], end |-> m.index_to_node[m.end],
   optional |-> optional]

\* solve_tsp up to "if solution:": build the manager and the model, solve
SolveTsp ==
  /\ tpc = "solve"
  /\ script \in SolveTspScripts
  /\ LET rt == Routes[stage]
         m  == ManagerOf(script, Len(city_names), rt.start, rt.end)
     IN
       /\ manager' = m
       /\ engine_calls' = Append(engine_calls, EngineCall(m, Len(city_names), {}))
       /\ \E sol \in EngineAnswers(m, ArcCosts(m, distance_matrix), {}) :
            /\ solution' = sol
            /\ IF sol.found
                 THEN /\ index' = m.start
                      /\ route_indices' = <<>>
                      /\ tpc' = "walk"
                      /\ UNCHANGED result
                 ELSE /\ result' = NoRoute
                      /\ tpc' = "returned"
                      /\ UNCHANGED <<index, route_indices>>
  /\ UNCHANGED <<script, city_names, distance_matrix, stage, tartu_index, tallinn_index,
                 tprinted, tfiles, traised>>
  /\ UNCHANGED <<mvars, gvars>>

\* one iteration of "while not routing.IsEnd(index)"
DecodeStep ==
  /\ tpc = "walk"
  /\ script \in SolveTspScripts
  /\ index # manager.end
  /\ route_indices' = Append(route_indices, manager.index_to_node[index])
  /\ index' = solution.next[index]
  /\ UNCHANGED <<script, city_names, distance_matrix, tpc, stage, tartu_index, tallinn_index,
                 engine_calls, manager, solution, result, tprinted, tfiles, traised>>
  /\ UNCHANGED <<mvars, gvars>>

\* a decode that returns the route without the end node
DecodeEndNoAppend ==
  /\ tpc = "walk"
  /\ script \in SolveTspScripts
  /\ index = manager.end
  /\ result' = [found |-> TRUE, route |-> route_indices, total |-> solution.objective]
  /\ tpc' = "returned"
  /\ UNCHANGED <<script, city_names, distance_matrix, stage, tartu_index, tallinn_index,
                 engine_calls, manager, solution, index, route_indices, tprinted, tfiles, traised>>
  /\ UNCHANGED <<mvars, gvars>>

\* the walk is at the end index: append the end node, return route and objective
DecodeEnd ==
  /\ tpc = "walk"
  /\ script \in SolveTspScripts
  /\ index = manager.end
  /\ route_indices' = Append(route_indices, manager.index_to_node[index])
  /\ result' = [found |-> TRUE, route |-> route_indices', total |-> solution.objective]
  /\ tpc' = "returned"
  /\ UNCHANGED <<script, city_names, distance_matrix, stage, tartu_index, tallinn_index,
                 engine_calls, manager, solution, index, tprinted, tfiles, traised>>
  /\ UNCHANGED <<mvars, gvars>>

\* the caller moves on to its next route, or is done
Advance ==
  /\ IF stage < Len(Routes)
       THEN stage' = stage + 1 /\ tpc' = "solve"
       ELSE stage' = stage /\ tpc' = "done"

\* a file written by generate_kml / generate_gpx
WithFile(fs, name, cities) ==
  [f \in (DOMAIN fs) \cup {name} |-> IF f = name THEN cities ELSE fs[f]]

\* multi_tsp_solutions.py main(): print the route, or "No solution found"
SolutionsReport ==
  /\ script = "multi_tsp_solutions"
  /\ tpc = "returned"
  /\ tprinted' = Append(tprinted,
       IF result.found
         THEN Line("route", Routes[stage].label, RouteCities(city_names, result.route), result.total)
         ELSE Line("no_solution", Routes[stage].label, <<>>, 0))
  /\ Advance
  /\ UNCHANGED <<script, city_names, distance_matrix, tartu_index, tallinn_index,
                 engine_calls, manager, solution, index, route_indices, result, tfiles, traised>>
  /\ UNCHANGED <<mvars, gvars>>

\* a caller that gives up on its remaining routes when a solve returns nothing
ReportAndExportStopOnNone ==
  /\ tpc = "returned"
  /\ IF result.found /\ result.route # <<>>
       THEN /\ tprinted' = Append(tprinted,
                 Line("route", Routes[stage].label, RouteCities(city_names, result.route), result.total))
            /\ tfiles' = WithFile(tfiles, Routes[stage].file, RouteCities(city_names, result.route))
            /\ Advance
       ELSE /\ tpc' = "done"
            /\ UNCHANGED <<tprinted, tfiles, stage>>
  /\ UNCHANGED <<script, city_names, distance_matrix, tartu_index, tallinn_index,
                 engine_calls, manager, solution, index, route_indices, result, traised>>
  /\ UNCHANGED <<mvars, gvars>>

\* the two exporting scripts: "if route_indices:" print the route and write the track file
ReportAndExport ==
  /\ tpc = "returned"
  /\ IF result.found /\ result.route # <<>>
       THEN /\ tprinted' = Append(tprinted,
                 Line("route", Routes[stage].label, RouteCities(city_names, result.route), result.total))
            /\ tfiles' = WithFile(tfiles, Routes[stage].file, RouteCities(city_names, result.route))
       ELSE UNCHANGED <<tprinted, tfiles>>
  /\ Advance
  /\ UNCHANGED <<script, city_names, distance_matrix, tartu_index, tallinn_index,
                 engine_calls, manager, solution, index, route_indices, result, traised>>
  /\ UNCHANGED <<mvars, gvars>>

KmlReport ==
  /\ script = "multi_tsp_with_kml_hesburger"
  /\ ReportAndExport

GpxReport ==
  /\ script = "multi_tsp_with_gpx"
  /\ ReportAndExport

(***************************************************************************)
(* tsp-or-tools.py, main()                                                 *)
(***************************************************************************)
\* distance_callback of tsp-or-tools.py: the matrix value as it is, no int()
OrToolsDistanceCallback(m, dm, from_index, to_index) ==
  dm[m.index_to_node[from_index]][m.index_to_node[to_index]]

\* every cost of the matrix is a whole number
WholeCosts(dm) == \A i \in DOMAIN dm : \A j \in DOMAIN dm[i] : dm[i][j] % Scale = 0

\* the engine takes integer arc costs; what its wrapper does with a callback
\* value that is not whole depends on the build: it truncates it, or the
\* solve ends with a TypeError
OrToolsArcCosts(m, dm) ==
  [a \in (0..m.end) \X (0..m.end) |-> IntOf(OrToolsDistanceCallback(m, dm, a[1], a[2]))]

\* lines 44-78 and 89-90: single-depot manager at the start index, a
\* disjunction of penalty 0 on the end node, solve
OrToolsSolve ==
  /\ script = "tsp-or-tools"
  /\ tpc = "solve"
  /\ LET m == SingleDepotManager(Len(city_names), tartu_index)
         optional == {NodeToIndex(m, tallinn_index)}
     IN
       /\ manager' = m
       /\ engine_calls' = Append(engine_calls, EngineCall(m, Len(city_names), optional))
       /\ \/ /\ ~WholeCosts(distance_matrix)
             /\ traised' = [type |-> "TypeError", args |-> <<>>]
             /\ tpc' = "aborted"
             /\ UNCHANGED <<solution, index, route_indices, tprinted>>
          \/ \E sol \in EngineAnswers(m, OrToolsArcCosts(m, distance_matrix), optional) :
               /\ solution' = sol
               /\ UNCHANGED traised
               /\ IF sol.found
                    THEN /\ tprinted' = Append(tprinted, Line("objective", "", <<>>, sol.objective))
                         /\ index' = m.start
                         /\ route_indices' = <<>>
                         /\ tpc' = "walk"
                    ELSE /\ tprinted' = Append(tprinted, Line("no_solution", "", <<>>, 0))
                         /\ tpc' = "done"
                         /\ UNCHANGED <<index, route_indices>>
  /\ UNCHANGED <<script, city_names, distance_matrix, stage, tartu_index, tallinn_index,
                 result, tfiles>>
  /\ UNCHANGED <<mvars, gvars>>

\* lines 81-83: one iteration of the walk
OrToolsDecodeStep ==
  /\ script = "tsp-or-tools"
  /\ tpc = "walk"
  /\ index # manager.end
  /\ route_indices' = Append(route_indices, manager.index_to_node[index])
  /\ index' = solution.next[index]
  /\ UNCHANGED <<script, city_names, distance_matrix, tpc, stage, tartu_index, tallinn_index,
                 engine_calls, manager, solution, result, tprinted, tfiles, traised>>
  /\ UNCHANGED <<mvars, gvars>>

\* lines 84-88: append the end node, print the route
OrToolsDecodeEnd ==
  /\ script = "tsp-or-tools"
  /\ tpc = "walk"
  /\ index = manager.end
  /\ route_indices' = Append(route_indices, manager.index_to_node[index])
  /\ result' = [found |-> TRUE, route |-> route_indices', total |-> solution.objective]
  /\ tprinted' = Append(tprinted, Line("route", "", RouteCities(city_names, route_indices'), solution.objective))
  /\ tpc' = "done"
  /\ UNCHANGED <<script, city_names, distance_matrix, stage, tartu_index, tallinn_index,
                 engine_calls, manager, solution, index, tfiles, traised>>
  /\ UNCHANGED <<mvars, gvars>>

NextTsp ==
  \/ SolutionsResolve
  \/ KmlResolve
  \/ GpxResolve
  \/ CreateDataModel
  \/ SolveTsp
  \/ DecodeStep
  \/ DecodeEnd
  \/ SolutionsReport
  \/ KmlReport
  \/ GpxReport
  \/ OrToolsSolve
  \/ OrToolsDecodeStep
  \/ OrToolsDecodeEnd

SpecTsp == InitTsp /\ [][NextTsp]_vars

(***************************************************************************)
(* Properties of the route scripts                                         *)
(***************************************************************************)
\* solve_tsp has returned a route to its caller
RouteReturned == script \in SolveTspScripts /\ tpc = "returned" /\ result.found

\* the request of the solve that has returned
Solved == Routes[stage]

\* the matrix costs of the consecutive pairs of a route
EdgeCosts(route) ==
  [k \in 1..(Len(route) - 1) |-> distance_matrix[route[k]][route[k + 1]]]

Abs(x) == IF x < 0 THEN -x ELSE x

\* C7: a closed-tour solve (no end index) over N >= 2 points that returns a
\* route returns N + 1 elements, the first and the last being start_index
\* and the ones in between being every other index of [0, N) exactly once.
C7_ClosedTourShape ==
  (RouteReturned /\ Solved.end = NoEnd /\ Len(city_names) >= 2) =>
    LET route == result.route
        n == Len(city_names)
    IN /\ Len(route) = n + 1
       /\ route[1] = Solved.start
       /\ route[n + 1] = Solved.start
       /\ {route[k] : k \in 2..n} = (0..(n - 1)) \ {Solved.start}

\* a closed tour over at least three points from a start index other than 0
C7_Witness ==
  /\ RouteReturned
  /\ Solved.end = NoEnd
  /\ Len(city_names) >= 3
  /\ Solved.start # 0
  /\ result.route[2] > result.route[3]

\* C8: an open-path solve with a fixed end index other than the start index
\* that returns a route returns exactly N elements, the first being
\* start_index and the last end_index, every index of [0, N) exactly once.
C8_OpenPathShape ==
  (RouteReturned /\ Solved.end # NoEnd /\ Solved.end # Solved.start) =>
    LET route == result.route
        n == Len(city_names)
    IN /\ Len(route) = n
       /\ route[1] = Solved.start
       /\ route[n] = Solved.end
       /\ Members(route) = 0..(n - 1)

\* an open path over at least three points whose end index is below its
\* start index, in each of the three scripts with a fixed-end solve
C8_Witness ==
  /\ RouteReturned
  /\ Solved.end # NoEnd
  /\ Len(city_names) >= 3
  /\ Solved.end < Solved.start
  /\ Solved.start < Len(city_names) - 1

LabelMissing ==
  \/ ~(\E i \in 1..Len(city_names) : city_names[i] = StartLabel(script))
  \/ ~(\E i \in 1..Len(city_names) : city_names[i] = EndLabel(script))

C10_UnknownLabelNoSolve ==
  (script \in Scripts /\ LabelMissing) =>
    /\ engine_calls = <<>>
    /\ manager = NoManager
    /\ tfiles = <<>>
    /\ \A k \in 1..Len(tprinted) : tprinted[k].kind = "error"
    /\ tpc \in {"resolve", "done", "aborted"}
    /\ tpc = "done" => (Len(tprinted) = 1 /\ tprinted[1].kind = "error")
    /\ tpc = "aborted" => traised.type = "ValueError"

\* a finished run over a non-empty label list that lacks the end label only
C10_Witness ==
  /\ tpc \in {"done", "aborted"}
  /\ Len(city_names) >= 2
  /\ \E i \in 1..Len(city_names) : city_names[i] = StartLabel(script)
  /\ ~(\E i \in 1..Len(city_names) : city_names[i] = EndLabel(script))
  /\ tartu_index # 0 \/ script = "tsp-or-tools"

\* C11: when the engine reports no solution, solve_tsp returns (None, None)
\* to its caller without raising and without running the decode walk, and
\* the caller writes no track file and prints no route for it and goes on
\* with its next route (or ends normally after the last one).
C11_NoSolutionIsAValue ==
  [][/\ (tpc = "walk" => solution.found)
     /\ (script \in SolveTspScripts /\ tpc = "solve" /\ ~solution'.found) =>
          /\ tpc' = "returned"
          /\ result' = NoRoute
          /\ traised' = NoException
          /\ route_indices' = route_indices /\ index' = index
          /\ tfiles' = tfiles /\ tprinted' = tprinted
     /\ (script \in SolveTspScripts /\ tpc = "returned" /\ ~result.found) =>
          /\ tfiles' = tfiles
          /\ traised' = NoException
          /\ \A k \in (Len(tprinted) + 1)..Len(tprinted') : tprinted'[k].kind # "route"
          /\ IF stage < Len(Routes)
               THEN tpc' = "solve" /\ stage' = stage + 1
               ELSE tpc' = "done"]_vars

\* the exporting script has ended after its first route had no solution
\* and its second one was solved and exported
C11_Witness ==
  /\ script = "multi_tsp_with_kml_hesburger"
  /\ tpc = "done"
  /\ Len(engine_calls) = 2
  /\ DOMAIN tfiles = {"Vabaduse_Solaris.kml"}

\* the k-th request to the engine came from a call site that had an end index
EndSupplied(k) ==
  IF script = "tsp-or-tools" THEN TRUE ELSE Routes[k].end # NoEnd

\* the end index that call site had
SuppliedEnd(k) ==
  IF script = "tsp-or-tools" THEN tallinn_index ELSE Routes[k].end

\* C12: whenever an end index is supplied the engine request has separate
\* start and end terminals, never the single-depot shape, and the route
\* decoded from it ends at end_index, does not return to the start and
\* visits end_index; in the three solve_tsp scripts and in tsp-or-tools.py.
C12_FixedEndUsesOpenTopology ==
  /\ \A k \in 1..Len(engine_calls) :
       EndSupplied(k) =>
         /\ engine_calls[k].constructor = "starts_ends"
         /\ engine_calls[k].end = SuppliedEnd(k)
  /\ (RouteReturned /\ EndSupplied(stage)) =>
       /\ result.route[Len(result.route)] = SuppliedEnd(stage)
       /\ SuppliedEnd(stage) \in Members(result.route)
  /\ (script = "tsp-or-tools" /\ tpc = "done" /\ result.found) =>
       /\ result.route[Len(result.route)] = tallinn_index
       /\ tallinn_index \in Members(result.route)

C14_RequestCountAndSizes ==
  /\ Len(requests) >= 1 => (chunk_size = max_routes \div N /\ chunk_size >= 1)
  /\ \A k \in 1..Len(requests) :
       /\ Len(requests[k].sources) >= 1
       /\ Len(requests[k].sources) <= chunk_size
       /\ Len(requests[k].sources) <= N - (k - 1) * chunk_size
       /\ k < Len(requests) => Len(requests[k].sources) = chunk_size
  /\ (AssemblyComplete /\ N >= 1) =>
       Len(requests) = (N + chunk_size - 1) \div chunk_size
  /\ (AssemblyComplete /\ N = 10 /\ max_routes = 25) =>
       /\ Len(requests) = 5
       /\ \A k \in 1..5 : Len(requests[k].sources) = 2
  /\ (AssemblyComplete /\ N = DocPoints /\ max_routes = MAX_ROUTES) =>
       /\ Len(requests) = 2
       /\ requests[1].sources = Range(0, 43)
       /\ requests[2].sources = Range(43, 81)

\* the run of the first example is over: 10 points, limit 25, 5 requests
C14_Witness ==
  /\ mpc = "done"
  /\ N = 10
  /\ max_routes = 25
  /\ Len(requests) = 5

\* C15: no step sends a request after a failed response was received, and
\* a step that sends a request sends exactly one, for a source range that
\* no earlier request of the run had: no range is sent twice.
C15_NoRetry ==
  [][/\ (\E k \in 1..Len(responses) : responses[k].status_code # HTTP_OK) =>
          requests' = requests
     /\ requests' # requests =>
          /\ Len(requests') = Len(requests) + 1
          /\ \A k \in 1..Len(requests) :
               /\ requests'[k] = requests[k]
               /\ requests[k].sources # requests'[Len(requests')].sources
               /\ SourceSet(k) \cap
                    {requests'[Len(requests')].sources[i] :
                       i \in 1..Len(requests'[Len(requests')].sources)} = {}]_vars

\* the third request failed: three ranges were sent, none after the failure
C15_Witness ==
  /\ mpc = "aborted"
  /\ Len(requests) = 3
  /\ responses[3].status_code # HTTP_OK
  /\ start_idx > 0

\* C16 as stated: both matrices written to the output files have a zero in
\* every diagonal cell, whatever the provider returned for those cells.
C16_DiagonalIsZero ==
  mpc = "done" =>
    \A i \in 0..(N - 1) :
      /\ files["hesburger_distance_matrix.csv"][i][i] = 0
      /\ files["hesburger_duration_matrix.csv"][i][i] = 0

\* C16: the diagonal cell [i][i] of each matrix written to the output files
\* is the value the provider returned for source i and destination i, so it
\* is zero exactly when the provider's value for it is zero; the initial
\* zero of the cell does not survive the merge.
C16_DiagonalIsProviderValue ==
  mpc = "done" =>
    \A i \in 0..(N - 1) :
      \E k \in 1..Len(requests) : \E p \in 1..Len(requests[k].sources) :
        /\ requests[k].sources[p] = i
        /\ files["hesburger_distance_matrix.csv"][i][i] = responses[k].distances[p][i + 1]
        /\ files["hesburger_duration_matrix.csv"][i][i] = responses[k].durations[p][i + 1]

\* files written with a non-zero self-distance and a zero one side by side
C16_Witness ==
  /\ mpc = "done"
  /\ N >= 2
  /\ files["hesburger_distance_matrix.csv"][0][0] = 0
  /\ files["hesburger_distance_matrix.csv"][N - 1][N - 1] # 0
  /\ files["hesburger_duration_matrix.csv"][N - 1][N - 1] # 0

(***************************************************************************)
(* geocode_hesburger.py                                                    *)
(*                                                                         *)
(* A coordinate is a whole number of degrees; a cell of a DataFrame column *)
(* or of a CSV file is <<x>> for the number x and None for a missing       *)
(* value, which to_csv writes as an empty field.                           *)
(***************************************************************************)
MaxRows == 3

None == <<>>
Float(x) == <<x>>

\* rows of data/hesburger_locations.csv (columns Restoran, Asula, Aadress)
Locations ==
  {[Restoran |-> "Hesburger Tartu", Asula |-> "Tartu", Aadress |-> "Riia 1"],
   [Restoran |-> "Hesburger Tallinn", Asula |-> "Tallinn", Aadress |-> "Viru 4"]}

\* [lon, lat] pairs a feature's geometry may carry
Coordinates == {<<26, 58>>, <<24, 59>>}

\* what requests.get(..., timeout=10) may produce: a 200 answer with one
\* feature or with none, a non-200 answer, or an exception
GeocodeReplies ==
  {[kind |-> "response", status_code |-> HTTP_OK, text |-> "ok",
    features |-> <<[coordinates |-> c]>>] : c \in Coordinates}
    \cup {[kind |-> "response", status_code |-> HTTP_OK, text |-> "ok", features |-> <<>>]}
    \cup {[kind |-> "response", status_code |-> st, text |-> "error", features |-> <<>>] :
            st \in ErrorStatuses}
    \cup {[kind |-> "exception", status_code |-> 0, text |-> "timeout", features |-> <<>>]}

\* a line printed by geocode_hesburger.py
GeoLine(kind, about) == [kind |-> kind, about |-> about]

\* lines 20-44: (lat, lon) of the first feature, else (None, None) after the
\* error line of the branch taken, if it prints one
geocode_address(address, reply) ==
  IF reply.kind = "exception"
    THEN [lat |-> None, lon |-> None,
          printed |-> <<GeoLine("Request exception", address)>>]
    ELSE IF reply.status_code = HTTP_OK
      THEN IF Len(reply.features) > 0
        THEN LET coords == reply.features[1].coordinates IN
               [lat |-> Float(coords[2]), lon |-> Float(coords[1]), printed |-> <<>>]
        ELSE [lat |-> None, lon |-> None, printed |-> <<>>]
      ELSE [lat |-> None, lon |-> None,
            printed |-> <<GeoLine("Geocoding API error", <<reply.status_code, reply.text>>)>>]

\* line 65: f"{address}, {city}, Estonia"
FullAddress(r) == <<r.Aadress, r.Asula, "Estonia">>

\* lines 73-79: the frame with its two new columns, every row of it, as
\* to_csv writes it (the dropna of line 77 is a comment)
WithCoordinates(frame, lats, lons) ==
  [k \in 1..Len(frame) |->
    [Restoran |-> frame[k].Restoran, Asula |-> frame[k].Asula, Aadress |-> frame[k].Aadress,
     Latitude |-> lats[k], Longitude |-> lons[k]]]

InitGeocode ==
  /\ MatrixIdle
  /\ RouteScriptsIdle("geocode_hesburger")
  /\ \E n \in 0..MaxRows : df \in [1..n -> Locations]
  /\ gpc = "rows"
  /\ row = 0
  /\ latitudes = <<>>
  /\ longitudes = <<>>
  /\ gprinted = <<>>
  /\ gfiles = <<>>

\* lines 59-70: one iteration of the loop over the rows
GeocodeRow ==
  /\ gpc = "rows"
  /\ row < Len(df)
  /\ \E reply \in GeocodeReplies :
       LET full_address == FullAddress(df[row + 1])
           g == geocode_address(full_address, reply)
       IN
         /\ gprinted' = (Append(gprinted, GeoLine("Geocoding", full_address))) \o g.printed
         /\ latitudes' = Append(latitudes, g.lat)
         /\ longitudes' = Append(longitudes, g.lon)
  /\ row' = row + 1
  /\ UNCHANGED <<gpc, df, gfiles>>
  /\ UNCHANGED <<mvars, tvars>>

\* lines 73-80: the columns are added and the frame is written
SaveCoords ==
  /\ gpc = "rows"
  /\ row = Len(df)
  /\ gfiles' = [f \in {"hesburger_coords.csv"} |-> WithCoordinates(df, latitudes, longitudes)]
  /\ gprinted' = Append(gprinted, GeoLine("Saved geocoded data to", "hesburger_coords.csv"))
  /\ gpc' = "done"
  /\ UNCHANGED <<df, row, latitudes, longitudes>>
  /\ UNCHANGED <<mvars, tvars>>

NextGeocode ==
  \/ GeocodeRow
  \/ SaveCoords

SpecGeocode == InitGeocode /\ [][NextGeocode]_vars

\* C17: the coordinate file the geocoding script writes has no row with a
\* missing latitude or longitude: it holds exactly the rows whose lookup
\* returned coordinates, the rows whose lookup returned (None, None) are
\* left out.
C17_FailedRowsExcluded ==
  gpc = "done" =>
    LET out == gfiles["hesburger_coords.csv"] IN
      /\ \A k \in 1..Len(out) : out[k].Latitude # None /\ out[k].Longitude # None
      /\ Len(out) = Cardinality({k \in 1..Len(latitudes) : latitudes[k] # None})

(***************************************************************************)
(* compute_distance_matrix.py under fair scheduling: the interpreter runs  *)
(* the script's own statements to the end, so every step main() can take   *)
(* by itself is eventually taken.  What arrives for a posted request is    *)
(* the provider's doing: line 84 passes no timeout to requests.post, so    *)
(* nothing makes the call return, and no fairness is assumed of the two    *)
(* receiving steps.                                                        *)
(***************************************************************************)
MatrixScriptSteps ==
  \/ PlanDivisionByZero
  \/ PlanInfeasible
  \/ PlanChunks
  \/ PostRequest
  \/ SaveResults

SpecMatrixFair == SpecMatrix /\ WF_vars(MatrixScriptSteps)

\* C18: for N >= 1 and chunk_size >= 1 the cursor never exceeds N, never more
\* than N requests are posted, every step that receives a success response
\* moves the cursor strictly forward, and whatever the provider does the run
\* eventually is completed or aborted.
C18_ChunkLoopTerminates ==
  /\ []((N >= 1 /\ max_routes >= N) => (start_idx <= N /\ Len(requests) <= N))
  /\ [][(/\ N >= 1 /\ max_routes >= N
         /\ Len(responses') > Len(responses)
         /\ responses'[Len(responses')].status_code = HTTP_OK) =>
           start_idx' > start_idx]_vars
  /\ (N >= 1 /\ max_routes >= N) ~> (mpc \in {"done", "aborted"})

====
